---- MODULE Spec2Model ----
(***************************************************************************)
(* ProjectSettings (src/project_setting.cpp): the property store, the      *)
(* feature override index, the deferred "settings_changed" notification    *)
(* and the locking of the store's operations.                              *)
(*                                                                         *)
(* Strings are sequences of one-character strings, so that find, split,    *)
(* strip_edges and begins_with are computed as the code computes them.     *)
(* A Variant is a record [type, v]; the store only looks at its type.      *)
(***************************************************************************)
EXTENDS Integers, Sequences, FiniteSets, TLC

(* ------------------------------ bounds -------------------------------- *)
\* last_order stops growing here (number of insertions in one run).
MaxOrder == 2
\* Longest override list kept under one base name.
MaxOverrides == 2
\* Number of "settings_changed" signals after which no new operation starts.
MaxSignals == 2

(* --------------------------- string helpers --------------------------- *)
DOT == "."
COMMA == ","
SPACE == " "

\* String::find: index (from 0) of the first occurrence of c, -1 when none.
find(s, c) ==
  IF \E i \in 1..Len(s) : s[i] = c
    THEN (CHOOSE i \in 1..Len(s) : s[i] = c /\ \A j \in 1..(i - 1) : s[j] # c) - 1
    ELSE -1

\* String::begins_with.
begins_with(s, p) ==
  /\ Len(p) <= Len(s)
  /\ \A i \in 1..Len(p) : s[i] = p[i]

\* String::split with a one-character splitter, empty parts kept.
RECURSIVE split(_, _)
split(s, c) ==
  LET p == find(s, c) IN
    IF p = -1 THEN <<s>>
    ELSE <<SubSeq(s, 1, p)>> \o split(SubSeq(s, p + 2, Len(s)), c)

\* String::strip_edges: leading and trailing blanks removed.
RECURSIVE strip_edges(_)
strip_edges(s) ==
  IF s = <<>> THEN s
  ELSE IF Head(s) = SPACE THEN strip_edges(Tail(s))
  ELSE IF s[Len(s)] = SPACE THEN strip_edges(SubSeq(s, 1, Len(s) - 1))
  ELSE s

(* ------------------------------ variants ------------------------------ *)
NIL == [type |-> "NIL", v |-> <<>>]
StringVariant(s) == [type |-> "STRING", v |-> s]
get_type(value) == value.type
\* Variant::operator String for the variants of the model.
String(value) == value.v
\* Variant::duplicate: a deep copy, equal to the original.
duplicate(value) == [type |-> value.type, v |-> value.v]

\* A store entry just constructed: VariantContainer(p_value, order).
VariantContainer(value, order) ==
  [variant |-> value, order |-> order, initial |-> NIL,
   restart_if_changed |-> FALSE, basic |-> FALSE, internal |-> FALSE,
   ignore_value_in_docs |-> FALSE]

(* --------------------------- names and inputs -------------------------- *)
\* CoreStringName(_custom_features)
_custom_features == <<"_", "c", "f">>
NameA == <<"a">>
NameAF == <<"a", ".", "f">>
NameAG == <<"a", ".", " ", "g">>
Names == {NameA, NameAF, NameAG, _custom_features}
Features == {<<"f">>, <<"g">>}
\* Values given to set: two strings, also read as comma-separated tag lists.
Values == {StringVariant(<<"f">>), StringVariant(<<"g", ",", "f">>)}
\* Names the flag and initial-value setters are called with.
FlagNames == {NameA}
\* Values set_initial_value is called with.
InitialValues == {StringVariant(<<"f">>)}
\* The platform's own feature tags: none of them is a tag of the model, whose
\* tags become active only as custom features.
os_features == {}
Threads == {"t1", "t2"}
NoThread == "none"
Setters == {"set_initial_value", "set_restart_if_changed", "set_as_basic",
            "set_as_internal", "set_ignore_value_in_docs"}
\* The build option DEBUG_METHODS_ENABLED.
DEBUG_METHODS_ENABLED == TRUE

VARIABLES
  props,             \* HashMap<StringName, VariantContainer>
  last_order,        \* next order value
  order_log,         \* every order value handed out, oldest first (history)
  feature_overrides, \* HashMap<StringName, LocalVector<Pair<feature, name>>>
  custom_features,   \* HashSet<String>
  is_changed,        \* the pending flag
  deferred,          \* _emit_changed calls waiting in the MessageQueue
  mq_ready,          \* MessageQueue exists and has been used
  signals,           \* "settings_changed" signals emitted so far
  pc,                \* where each thread stands in its call
  call,              \* the call each thread is making: [op, p_name, p_value, p_flag]
  local,             \* the order value a thread read from last_order
  mutex,             \* holder of the store's lock (_THREAD_SAFE_METHOD_)
  resource_path,     \* the project root, "" when unset
  data_dir,          \* OS::get_user_data_dir(), "" when unset
  dirs,              \* the directories that exist on the filesystem
  current_dir,       \* the working directory of the process
  p_path,            \* the path handed to globalize_path or localize_path
  r_path,            \* the path the call returned
  p_project_features, \* the list handed to get_unsupported_features
  r_features,        \* the list the call returned
  called,            \* the function whose result r_path or r_features holds, or "none"
  setup_pc,          \* where _setup stands: [at, i], i the candidate in turn
  p_main_pack,       \* the explicit archive path, "" when none
  p_ignore_override, \* the override file is not to be loaded
  packs,             \* the locations PackedData::add_pack can mount
  disabled,          \* PackedData::is_disabled()
  probed,            \* the locations add_pack was asked to mount, oldest first
  mounted,           \* the locations add_pack mounted, oldest first
  loaded,            \* the settings files read and the result of each
  err,               \* the value _setup returned
  project_loaded,    \* a full setup has completed
  using_datapack,    \* a pack has been mounted
  refreshed          \* the refreshes a mount made, oldest first

store_vars == <<props, last_order, order_log, feature_overrides, custom_features,
                is_changed, deferred, mq_ready, signals>>
thread_vars == <<pc, call, local, mutex>>
path_vars == <<resource_path, data_dir, dirs, current_dir, p_path, r_path>>
features_vars == <<p_project_features, r_features>>
setup_vars == <<setup_pc, p_main_pack, p_ignore_override, packs, disabled, probed,
                mounted, loaded, err, project_loaded, using_datapack, refreshed>>
\* What the store's operations never touch.
aux_vars == <<path_vars, features_vars, called, setup_vars>>
vars == <<props, last_order, order_log, feature_overrides, custom_features,
          is_changed, deferred, mq_ready, signals, pc, call, local, mutex,
          resource_path, data_dir, dirs, current_dir, p_path, r_path,
          p_project_features, r_features, called,
          setup_pc, p_main_pack, p_ignore_override, packs, disabled, probed,
          mounted, loaded, err, project_loaded, using_datapack, refreshed>>

has(map, key) == key \in DOMAIN map

\* map[key] = value of a HashMap (inserting or overwriting).
Put(map, key, value) ==
  [k \in DOMAIN map \cup {key} |-> IF k = key THEN value ELSE map[k]]

\* HashMap::erase.
erase(map, key) == [k \in DOMAIN map \ {key} |-> map[k]]

EmptyMap == [k \in {} |-> NIL]

\* OS::has_feature: the platform's tags and the project's custom features.
has_feature(feature) == feature \in os_features \cup custom_features

(* ------------------------- notification (425-439) ---------------------- *)
\* Faulty variant: the flag is not consulted, every change queues a call.
_queue_changed_every_time ==
  IF ~mq_ready
    THEN UNCHANGED <<is_changed, deferred>>
    ELSE /\ is_changed' = TRUE
         /\ deferred' = deferred + 1

\* Faulty variant: nothing is ever queued.
_queue_changed_never == UNCHANGED <<is_changed, deferred>>

\* ProjectSettings::_queue_changed: the deferred call is queued only when the
\* flag is clear and the MessageQueue can take it.
_queue_changed ==
  IF is_changed \/ ~mq_ready
    THEN UNCHANGED <<is_changed, deferred>>
    ELSE /\ is_changed' = TRUE
         /\ deferred' = deferred + 1

\* ProjectSettings::_emit_changed, the body of the deferred call.
_emit_changed ==
  IF ~is_changed
    THEN UNCHANGED <<is_changed, signals>>
    ELSE /\ is_changed' = FALSE
         /\ signals' = signals + 1

(* ------------------------ override index (272-288) --------------------- *)
Pair(first, second) == [first |-> first, second |-> second]

\* The loop over s[1..]: one entry per qualifier, appended under s[0].
RECURSIVE push_back_overrides(_, _, _, _)
push_back_overrides(overrides, s, i, p_name) ==
  IF i > Len(s) THEN overrides
  ELSE LET feature == strip_edges(s[i])
           feature_override == Pair(feature, p_name)
           list == IF has(overrides, s[1]) THEN overrides[s[1]] ELSE <<>>
       IN push_back_overrides(Put(overrides, s[1], Append(list, feature_override)),
                              s, i + 1, p_name)

\* The "Feature overrides" block of _set.
add_feature_overrides(overrides, p_name) ==
  IF find(p_name, DOT) # -1
    THEN push_back_overrides(overrides, split(p_name, DOT), 2, p_name)
    ELSE overrides

(* ----------------------------- _set (246-315) -------------------------- *)
Range(s) == {s[i] : i \in 1..Len(s)}

\* Faulty variant: removal also drops the index entries that point at the name.
_set_nil_purging(p_name) ==
  /\ props' = erase(props, p_name)
  /\ feature_overrides' =
       [b \in DOMAIN feature_overrides |->
          SelectSeq(feature_overrides[b], LAMBDA e : e.second # p_name)]
  /\ UNCHANGED <<last_order, order_log, custom_features>>

\* Lines 249-261: removal. The names of the model are neither autoloads nor
\* global groups, so those two branches do nothing.
_set_nil(p_name) ==
  /\ props' = erase(props, p_name)
  /\ UNCHANGED <<last_order, order_log, feature_overrides, custom_features>>

\* Faulty variant: the early return is missing, the value is stored as well.
_set_custom_features_stored(p_value) ==
  /\ custom_features' = custom_features \cup Range(split(String(p_value), COMMA))
  /\ IF has(props, _custom_features)
       THEN /\ props' = Put(props, _custom_features,
                            [props[_custom_features] EXCEPT !.variant = p_value])
            /\ UNCHANGED <<last_order, order_log>>
       ELSE /\ props' = Put(props, _custom_features, VariantContainer(p_value, last_order))
            /\ last_order' = last_order + 1
            /\ order_log' = Append(order_log, last_order)
  /\ UNCHANGED feature_overrides

\* Lines 263-270: the reserved name only feeds the custom feature set.
_set_custom_features(p_value) ==
  /\ custom_features' = custom_features \cup Range(split(String(p_value), COMMA))
  /\ UNCHANGED <<props, last_order, order_log, feature_overrides>>

\* Faulty variant: the counter is not advanced by an insertion.
_set_value_same_order(p_name, p_value) ==
  IF has(props, p_name)
    THEN /\ props' = Put(props, p_name, [props[p_name] EXCEPT !.variant = p_value])
         /\ UNCHANGED <<last_order, order_log>>
    ELSE /\ props' = Put(props, p_name, VariantContainer(p_value, last_order))
         /\ last_order' = last_order
         /\ order_log' = Append(order_log, last_order)

\* Faulty variant: every assignment builds a new container, stored or not.
_set_value_always_new(p_name, p_value) ==
  /\ props' = Put(props, p_name, VariantContainer(p_value, last_order))
  /\ last_order' = last_order + 1
  /\ order_log' = Append(order_log, last_order)

\* Lines 290-294: update in place, or insert with the next order.
_set_value(p_name, p_value) ==
  IF has(props, p_name)
    THEN /\ props' = Put(props, p_name, [props[p_name] EXCEPT !.variant = p_value])
         /\ UNCHANGED <<last_order, order_log>>
    ELSE /\ props' = Put(props, p_name, VariantContainer(p_value, last_order))
         /\ last_order' = last_order + 1
         /\ order_log' = Append(order_log, last_order)

\* ProjectSettings::_set, run under the store's lock.  Lines 295-310 (autoloads
\* and global groups) act only on names that begin with "autoload/" or
\* "global_group/", which the names of the model do not, and never on props.
_set(p_name, p_value) ==
  /\ IF get_type(p_value) = "NIL"
       THEN _set_nil(p_name)
       ELSE IF p_name = _custom_features
         THEN _set_custom_features(p_value)
         ELSE /\ _set_value(p_name, p_value)
              /\ feature_overrides' = add_feature_overrides(feature_overrides, p_name)
              /\ UNCHANGED custom_features
  /\ _queue_changed
  /\ UNCHANGED <<mq_ready, signals>>

(* ------------------ get_setting_with_override (328-349) ---------------- *)
\* Faulty variant: the feature of an entry is not asked for.
RECURSIVE scan_overrides_any_feature(_, _, _)
scan_overrides_any_feature(overrides, i, name) ==
  IF i > Len(overrides) THEN name
  ELSE IF has(props, overrides[i].second)
    THEN overrides[i].second
    ELSE scan_overrides_any_feature(overrides, i + 1, name)

\* Faulty variant: the scan ends at the first active entry, stored or not.
RECURSIVE scan_overrides_stop_at_active(_, _, _)
scan_overrides_stop_at_active(overrides, i, name) ==
  IF i > Len(overrides) THEN name
  ELSE IF has_feature(overrides[i].first)
    THEN (IF has(props, overrides[i].second) THEN overrides[i].second ELSE name)
    ELSE scan_overrides_stop_at_active(overrides, i + 1, name)

\* The loop of lines 334-341: the name the lookup ends on.
RECURSIVE scan_overrides(_, _, _)
scan_overrides(overrides, i, name) ==
  IF i > Len(overrides) THEN name
  ELSE IF has_feature(overrides[i].first) /\ has(props, overrides[i].second)
    THEN overrides[i].second
    ELSE scan_overrides(overrides, i + 1, name)

override_name(p_name) ==
  IF has(feature_overrides, p_name)
    THEN scan_overrides(feature_overrides[p_name], 1, p_name)
    ELSE p_name

\* Variant() is returned when the final name is not stored.
get_setting_with_override(p_name) ==
  LET name == override_name(p_name) IN
    IF ~has(props, name) THEN NIL ELSE props[name].variant

\* ProjectSettings::_get: the raw lookup; found is its boolean result.
_get(p_name) ==
  IF ~has(props, p_name)
    THEN [found |-> FALSE, r_ret |-> NIL]
    ELSE [found |-> TRUE, r_ret |-> props[p_name].variant]

(* ------------------- flag and initial setters (186-213) ---------------- *)
\* HashMap::operator[] of a non-const map: a missing key is inserted with a
\* default-constructed VariantContainer.
at(map, key) == IF has(map, key) THEN map[key] ELSE VariantContainer(NIL, 0)

store_frame == <<last_order, order_log, feature_overrides, custom_features,
                 is_changed, deferred, mq_ready, signals>>

\* The field each setter assigns.
write_field(op, container, p_value, p_flag) ==
  CASE op = "set_initial_value" -> [container EXCEPT !.initial = duplicate(p_value)]
    [] op = "set_restart_if_changed" -> [container EXCEPT !.restart_if_changed = p_flag]
    [] op = "set_as_basic" -> [container EXCEPT !.basic = p_flag]
    [] op = "set_as_internal" -> [container EXCEPT !.internal = p_flag]
    [] op = "set_ignore_value_in_docs" ->
         IF DEBUG_METHODS_ENABLED
           THEN [container EXCEPT !.ignore_value_in_docs = p_flag]
           ELSE container

\* Faulty variant: the existence check is missing.
setter_unchecked(op, p_name, p_value, p_flag) ==
  /\ props' = Put(props, p_name, write_field(op, at(props, p_name), p_value, p_flag))
  /\ UNCHANGED store_frame

\* One setter called by one caller at a time: ERR_FAIL_COND_MSG, then the write.
setter(op, p_name, p_value, p_flag) ==
  IF ~has(props, p_name) THEN UNCHANGED store_vars
  ELSE /\ props' = Put(props, p_name, write_field(op, at(props, p_name), p_value, p_flag))
       /\ UNCHANGED store_frame

set_initial_value(p_name, p_value) == setter("set_initial_value", p_name, p_value, FALSE)
set_restart_if_changed(p_name, p_restart) == setter("set_restart_if_changed", p_name, NIL, p_restart)
set_as_basic(p_name, p_basic) == setter("set_as_basic", p_name, NIL, p_basic)
set_as_internal(p_name, p_internal) == setter("set_as_internal", p_name, NIL, p_internal)
set_ignore_value_in_docs(p_name, p_ignore) == setter("set_ignore_value_in_docs", p_name, NIL, p_ignore)

(* ------------------------------ the system ----------------------------- *)
NoCall == [op |-> "none", p_name |-> <<>>, p_value |-> NIL, p_flag |-> FALSE]

\* No path has been translated: the roots are unset, no directory is known.
PathIdle ==
  /\ resource_path = <<>>
  /\ data_dir = <<>>
  /\ dirs = {}
  /\ current_dir = <<>>
  /\ p_path = <<>>
  /\ r_path = <<>>

\* No feature list has been checked.
FeaturesIdle ==
  /\ p_project_features = <<>>
  /\ r_features = <<>>

\* _setup has not been called and no pack is known.
SetupIdle ==
  /\ setup_pc = [at |-> "idle", i |-> 0]
  /\ p_main_pack = <<>>
  /\ p_ignore_override = FALSE
  /\ packs = {}
  /\ disabled = FALSE
  /\ probed = <<>>
  /\ mounted = <<>>
  /\ loaded = <<>>
  /\ err = "none"
  /\ project_loaded = FALSE
  /\ using_datapack = FALSE
  /\ refreshed = <<>>

\* The store after construction.  The counter starts at the base value of
\* the class declaration; the model counts from 0.
Init ==
  /\ props = EmptyMap
  /\ last_order = 0
  /\ order_log = <<>>
  /\ feature_overrides = EmptyMap
  /\ custom_features = {}
  /\ is_changed = FALSE
  /\ deferred = 0
  /\ mq_ready = FALSE
  /\ signals = 0
  /\ pc = [t \in Threads |-> "idle"]
  /\ call = [t \in Threads |-> NoCall]
  /\ local = [t \in Threads |-> 0]
  /\ mutex = NoThread
  /\ PathIdle
  /\ FeaturesIdle
  /\ called = "none"
  /\ SetupIdle

\* Entries the call set(p_name, p_value) appends to the override index.
NewOverrides(p_name) == Len(split(p_name, DOT)) - 1

OverridesLen(base) == IF has(feature_overrides, base) THEN Len(feature_overrides[base]) ELSE 0

\* The bounds of the model: a call is made only while it stays inside them.
InBounds(p_name, p_value) ==
  /\ signals < MaxSignals
  /\ get_type(p_value) # "NIL" /\ p_name # _custom_features =>
       /\ has(props, p_name) \/ last_order < MaxOrder
       /\ OverridesLen(split(p_name, DOT)[1]) + NewOverrides(p_name) <= MaxOverrides

(* One caller at a time: each call is one step. *)
Set == \E p_name \in Names, p_value \in Values \cup {NIL} :
  InBounds(p_name, p_value) /\ _set(p_name, p_value) /\ UNCHANGED thread_vars /\ UNCHANGED aux_vars

SetInitialValue == \E p_name \in FlagNames, p_value \in InitialValues :
  signals < MaxSignals /\ set_initial_value(p_name, p_value) /\ UNCHANGED thread_vars /\ UNCHANGED aux_vars

SetRestartIfChanged == \E p_name \in FlagNames, b \in BOOLEAN :
  signals < MaxSignals /\ set_restart_if_changed(p_name, b) /\ UNCHANGED thread_vars /\ UNCHANGED aux_vars

SetAsBasic == \E p_name \in FlagNames, b \in BOOLEAN :
  signals < MaxSignals /\ set_as_basic(p_name, b) /\ UNCHANGED thread_vars /\ UNCHANGED aux_vars

SetAsInternal == \E p_name \in FlagNames, b \in BOOLEAN :
  signals < MaxSignals /\ set_as_internal(p_name, b) /\ UNCHANGED thread_vars /\ UNCHANGED aux_vars

SetIgnoreValueInDocs == \E p_name \in FlagNames, b \in BOOLEAN :
  signals < MaxSignals /\ set_ignore_value_in_docs(p_name, b) /\ UNCHANGED thread_vars /\ UNCHANGED aux_vars

\* The MessageQueue comes up (it exists and has carried a message).
StartMessageQueue ==
  /\ ~mq_ready
  /\ mq_ready' = TRUE
  /\ UNCHANGED <<props, last_order, order_log, feature_overrides, custom_features,
                 is_changed, deferred, signals>>
  /\ UNCHANGED thread_vars
  /\ UNCHANGED aux_vars

\* The MessageQueue flushes one deferred call: _emit_changed runs.
Deliver ==
  /\ deferred > 0
  /\ deferred' = deferred - 1
  /\ _emit_changed
  /\ UNCHANGED <<props, last_order, order_log, feature_overrides, custom_features,
                 mq_ready>>
  /\ UNCHANGED thread_vars
  /\ UNCHANGED aux_vars

Next ==
  \/ Set
  \/ SetInitialValue
  \/ SetRestartIfChanged
  \/ SetAsBasic
  \/ SetAsInternal
  \/ SetIgnoreValueInDocs
  \/ StartMessageQueue
  \/ Deliver

Spec == Init /\ [][Next]_vars

\* The MessageQueue is flushed every frame: a queued call is delivered.
SpecFair == Spec /\ WF_vars(Deliver)

(* ===================== callers on several threads ===================== *)
(* A call is a sequence of steps of its thread.  _set takes the store's    *)
(* lock on entry (_THREAD_SAFE_METHOD_, line 247) and gives it back on      *)
(* return; the five setters of lines 186-213 take no lock.                 *)

\* Names and values the threads call set with.
ThreadNames == {NameA, NameAF}
\* Setters and flag values the threads call.
ThreadSetters == {"set_initial_value", "set_as_basic"}
ThreadSetterValues == {TRUE}

SetCall(p_name, p_value) ==
  [op |-> "_set", p_name |-> p_name, p_value |-> p_value, p_flag |-> FALSE]

SetterCall(op, p_name, p_value, p_flag) ==
  [op |-> op, p_name |-> p_name, p_value |-> p_value, p_flag |-> p_flag]

\* Threads inside _set.
InSet == {u \in Threads : pc[u] # "idle" /\ call[u].op = "_set"}

\* Insertions and index entries the calls under way may still make.
RECURSIVE PendingOverrides(_)
PendingOverrides(S) ==
  IF S = {} THEN 0
  ELSE LET u == CHOOSE x \in S : TRUE
       IN NewOverrides(call[u].p_name) + PendingOverrides(S \ {u})

ThreadInBounds(p_name, p_value) ==
  /\ signals < MaxSignals
  /\ get_type(p_value) # "NIL" /\ p_name # _custom_features =>
       /\ last_order + Cardinality(InSet) < MaxOrder
       /\ OverridesLen(split(p_name, DOT)[1]) + NewOverrides(p_name)
            + PendingOverrides(InSet) <= MaxOverrides

\* Faulty variant: the lock is handed to every caller that asks for it.
lock_is_free_always == TRUE

\* The lock can be taken: nobody holds it.
lock_is_free == mutex = NoThread

\* A thread enters set(p_name, p_value) with a value.
T_CallSet(t) ==
  /\ pc[t] = "idle"
  /\ \E p_name \in ThreadNames, p_value \in Values :
       /\ ThreadInBounds(p_name, p_value)
       /\ call' = [call EXCEPT ![t] = SetCall(p_name, p_value)]
  /\ pc' = [pc EXCEPT ![t] = "set_lock"]
  /\ UNCHANGED <<store_vars, local, mutex>>
  /\ UNCHANGED aux_vars

\* A thread enters set(p_name, absent).
T_CallRemove(t) ==
  /\ pc[t] = "idle"
  /\ \E p_name \in ThreadNames :
       /\ ThreadInBounds(p_name, NIL)
       /\ call' = [call EXCEPT ![t] = SetCall(p_name, NIL)]
  /\ pc' = [pc EXCEPT ![t] = "set_lock"]
  /\ UNCHANGED <<store_vars, local, mutex>>
  /\ UNCHANGED aux_vars

\* Line 247: the lock is taken.
T_SetLock(t) ==
  /\ pc[t] = "set_lock"
  /\ lock_is_free
  /\ mutex' = t
  /\ pc' = [pc EXCEPT ![t] = "set_body"]
  /\ UNCHANGED <<store_vars, call, local>>
  /\ UNCHANGED aux_vars

\* Lines 249-293 up to the read of last_order: the removal, the reserved
\* name, the index entries, the update in place; for a new name the thread
\* reads the counter.
T_SetBody(t) ==
  /\ pc[t] = "set_body"
  /\ LET p_name == call[t].p_name
         p_value == call[t].p_value
     IN IF get_type(p_value) = "NIL"
          THEN /\ _set_nil(p_name)
               /\ pc' = [pc EXCEPT ![t] = "set_queue"]
               /\ UNCHANGED local
          ELSE IF p_name = _custom_features
            THEN /\ _set_custom_features(p_value)
                 /\ pc' = [pc EXCEPT ![t] = "set_queue"]
                 /\ UNCHANGED local
            ELSE /\ feature_overrides' = add_feature_overrides(feature_overrides, p_name)
                 /\ UNCHANGED <<custom_features, last_order, order_log>>
                 /\ IF has(props, p_name)
                      THEN /\ props' = Put(props, p_name,
                                           [props[p_name] EXCEPT !.variant = p_value])
                           /\ pc' = [pc EXCEPT ![t] = "set_queue"]
                           /\ UNCHANGED local
                      ELSE /\ local' = [local EXCEPT ![t] = last_order]
                           /\ pc' = [pc EXCEPT ![t] = "set_incr"]
                           /\ UNCHANGED props
  /\ UNCHANGED <<is_changed, deferred, mq_ready, signals, call, mutex>>
  /\ UNCHANGED aux_vars

\* Line 293, last_order++: the counter is written back.
T_SetIncr(t) ==
  /\ pc[t] = "set_incr"
  /\ last_order' = local[t] + 1
  /\ pc' = [pc EXCEPT ![t] = "set_store"]
  /\ UNCHANGED <<props, order_log, feature_overrides, custom_features,
                 is_changed, deferred, mq_ready, signals, call, local, mutex>>
  /\ UNCHANGED aux_vars

\* Line 293: the new container is stored with the order that was read.
T_SetStore(t) ==
  /\ pc[t] = "set_store"
  /\ props' = Put(props, call[t].p_name, VariantContainer(call[t].p_value, local[t]))
  /\ order_log' = Append(order_log, local[t])
  /\ pc' = [pc EXCEPT ![t] = "set_queue"]
  /\ UNCHANGED <<last_order, feature_overrides, custom_features,
                 is_changed, deferred, mq_ready, signals, call, local, mutex>>
  /\ UNCHANGED aux_vars

\* Lines 313-315: _queue_changed, then the return gives the lock back.
T_SetReturn(t) ==
  /\ pc[t] = "set_queue"
  /\ _queue_changed
  /\ mutex' = IF mutex = t THEN NoThread ELSE mutex
  /\ pc' = [pc EXCEPT ![t] = "idle"]
  /\ call' = [call EXCEPT ![t] = NoCall]
  /\ UNCHANGED <<props, last_order, order_log, feature_overrides, custom_features,
                 mq_ready, signals, local>>
  /\ UNCHANGED aux_vars

\* A thread enters one of the five setters: no lock is taken.
T_CallSetter(t) ==
  /\ pc[t] = "idle"
  /\ signals < MaxSignals
  /\ \E op \in ThreadSetters, p_name \in FlagNames, p_value \in InitialValues,
        p_flag \in ThreadSetterValues :
       call' = [call EXCEPT ![t] = SetterCall(op, p_name, p_value, p_flag)]
  /\ pc' = [pc EXCEPT ![t] = "setter_check"]
  /\ UNCHANGED <<store_vars, local, mutex>>
  /\ UNCHANGED aux_vars

\* ERR_FAIL_COND_MSG(!props.has(p_name), ...): return, or go on to the write.
T_SetterCheck(t) ==
  /\ pc[t] = "setter_check"
  /\ IF ~has(props, call[t].p_name)
       THEN /\ pc' = [pc EXCEPT ![t] = "idle"]
            /\ call' = [call EXCEPT ![t] = NoCall]
       ELSE /\ pc' = [pc EXCEPT ![t] = "setter_write"]
            /\ UNCHANGED call
  /\ UNCHANGED <<store_vars, local, mutex>>
  /\ UNCHANGED aux_vars

\* props[p_name].field = value.  When the entry was erased after the check,
\* the unsynchronised write either goes through operator[], which inserts a
\* default container, or lands in the erased element and is lost.
T_SetterWrite(t) ==
  /\ pc[t] = "setter_write"
  /\ LET c == call[t]
         written == Put(props, c.p_name,
                        write_field(c.op, at(props, c.p_name), c.p_value, c.p_flag))
     IN IF has(props, c.p_name)
          THEN props' = written
          ELSE props' \in {written, props}
  /\ pc' = [pc EXCEPT ![t] = "idle"]
  /\ call' = [call EXCEPT ![t] = NoCall]
  /\ UNCHANGED <<store_frame, local, mutex>>
  /\ UNCHANGED aux_vars

\* Threads that only insert and update settings.
NextSet ==
  \/ \E t \in Threads : T_CallSet(t)
  \/ \E t \in Threads : T_SetLock(t)
  \/ \E t \in Threads : T_SetBody(t)
  \/ \E t \in Threads : T_SetIncr(t)
  \/ \E t \in Threads : T_SetStore(t)
  \/ \E t \in Threads : T_SetReturn(t)
  \/ StartMessageQueue
  \/ Deliver

SpecSet == Init /\ [][NextSet]_vars

\* Threads that set, remove and call the setters.
NextRace ==
  \/ \E t \in Threads : T_CallSet(t)
  \/ \E t \in Threads : T_CallRemove(t)
  \/ \E t \in Threads : T_SetLock(t)
  \/ \E t \in Threads : T_SetBody(t)
  \/ \E t \in Threads : T_SetIncr(t)
  \/ \E t \in Threads : T_SetStore(t)
  \/ \E t \in Threads : T_SetReturn(t)
  \/ \E t \in Threads : T_CallSetter(t)
  \/ \E t \in Threads : T_SetterCheck(t)
  \/ \E t \in Threads : T_SetterWrite(t)

SpecRace == Init /\ [][NextRace]_vars

(* ======================= properties of the store ====================== *)
OverridesOf(name) == IF has(feature_overrides, name) THEN feature_overrides[name] ELSE <<>>

\* The entries of a list whose feature is active and whose target is stored.
Matching(list) ==
  {i \in 1..Len(list) : has_feature(list[i].first) /\ has(props, list[i].second)}

FirstMatching(list) ==
  CHOOSE i \in Matching(list) : \A j \in Matching(list) : i <= j

\* The entries of a list whose feature is active and whose target is gone.
Stale(list) ==
  {i \in 1..Len(list) : has_feature(list[i].first) /\ ~has(props, list[i].second)}

F == <<"f">>
G == <<"g">>

\* C1: the lookup of a name returns the value of the first entry of its
\* override list, in the order the entries were appended, whose feature is
\* active and whose target is stored; with a.f and a.g both stored and only
\* one of the two features active, it returns the value stored under the
\* name of the active one, whichever was inserted first.
C1_FirstActiveStoredWins ==
  /\ \A name \in Names :
       Matching(OverridesOf(name)) # {} =>
         get_setting_with_override(name) =
           props[OverridesOf(name)[FirstMatching(OverridesOf(name))].second].variant
  /\ has(props, NameAF) /\ has(props, NameAG) /\ has_feature(G) /\ ~has_feature(F) =>
       get_setting_with_override(NameA) = props[NameAG].variant
  /\ has(props, NameAF) /\ has(props, NameAG) /\ has_feature(F) /\ ~has_feature(G) =>
       get_setting_with_override(NameA) = props[NameAF].variant

\* a. g was inserted before a.f, both are stored with different values, only
\* f is active, and the lookup of a gives the value of a.f.
C1_Witness ==
  /\ has(props, NameAF) /\ has(props, NameAG)
  /\ props[NameAG].order < props[NameAF].order
  /\ OverridesOf(NameA) = <<Pair(G, NameAG), Pair(F, NameAF)>>
  /\ has_feature(F) /\ ~has_feature(G)
  /\ props[NameAF].variant # props[NameAG].variant
  /\ get_setting_with_override(NameA) = props[NameAF].variant

\* C2: an entry whose feature is active but whose target was removed is
\* passed over and the scan goes on to the later entries; when no entry is
\* both active and stored the lookup returns the value stored under the name
\* itself; the empty value comes back only when the name itself is not stored.
C2_StaleSkippedThenRaw ==
  \A name \in Names :
    LET list == OverridesOf(name) IN
      /\ \A i \in Stale(list), j \in Matching(list) :
           i < j /\ (\A k \in Matching(list) : j <= k) =>
             get_setting_with_override(name) = props[list[j].second].variant
      /\ Matching(list) = {} /\ has(props, name) =>
           get_setting_with_override(name) = props[name].variant
      /\ Matching(list) = {} /\ ~has(props, name) =>
           get_setting_with_override(name) = NIL
      /\ get_setting_with_override(name) = NIL => ~has(props, name)

\* a.f was removed while f is active; the later entry of a. g is active and
\* stored, and the lookup of a gives its value.
C2_Witness ==
  /\ OverridesOf(NameA) = <<Pair(F, NameAF), Pair(G, NameAG)>>
  /\ ~has(props, NameAF) /\ has(props, NameAG)
  /\ has_feature(F) /\ has_feature(G)
  /\ get_setting_with_override(NameA) = props[NameAG].variant

\* C3 as stated: no override entry points at a name that is not stored.
C3_NoEntryForRemovedName ==
  \A base \in DOMAIN feature_overrides :
    \A i \in 1..Len(feature_overrides[base]) :
      has(props, feature_overrides[base][i].second)

\* C3 as amended: a removal erases the store entry and leaves the override
\* index as it was (the entries that point at the removed name stay); the
\* lookup of the base then ends on the first remaining entry that is active
\* and stored, or on the name itself.
C3_RemovalKeepsIndex ==
  /\ [][\A p_name \in Names :
          _set(p_name, NIL) =>
            /\ feature_overrides' = feature_overrides
            /\ ~has(props', p_name)]_vars
  /\ [](\A name \in Names :
          override_name(name) =
            IF Matching(OverridesOf(name)) # {}
              THEN OverridesOf(name)[FirstMatching(OverridesOf(name))].second
              ELSE name)

\* The only entry under a points at a.f, which has been removed while f is
\* active: the lookup of a falls through to absence.
C3_Witness ==
  /\ OverridesOf(NameA) = <<Pair(F, NameAF)>>
  /\ ~has(props, NameAF) /\ ~has(props, NameA)
  /\ has_feature(F)
  /\ get_setting_with_override(NameA) = NIL

StrictlyIncreasing(seq) == \A i, j \in 1..Len(seq) : i < j => seq[i] < seq[j]

\* C4: no two stored settings share an order value, the order values handed
\* out grow strictly with every insertion (so a later insertion is above
\* every earlier one and a freed value never comes back), and every stored
\* order is one that was handed out, below the counter.
C4_OrdersUniqueNeverReused ==
  /\ \A m, n \in DOMAIN props : m # n => props[m].order # props[n].order
  /\ StrictlyIncreasing(order_log)
  /\ \A n \in DOMAIN props :
       /\ props[n].order \in Range(order_log)
       /\ props[n].order < last_order
  /\ \A i \in 1..Len(order_log) : order_log[i] < last_order

\* a.f was inserted, removed and inserted again: it is the only stored
\* setting, two orders were handed out and it carries the second, larger one.
C4_Witness ==
  /\ Len(order_log) = 2
  /\ DOMAIN props = {NameAF}
  /\ OverridesOf(NameA) = <<Pair(F, NameAF), Pair(F, NameAF)>>
  /\ props[NameAF].order = order_log[2]
  /\ order_log[1] < order_log[2]

Fields == {"variant", "order", "initial", "restart_if_changed", "basic", "internal",
           "ignore_value_in_docs"}

\* The entries of the store other than name are what they were.
OthersUnchanged(name) ==
  \A m \in DOMAIN props \ {name} : has(props', m) /\ props'[m] = props[m]

\* C7: a set with a value on a stored name replaces the value of that entry
\* and nothing else (same order, initial value and flags, the counter stays,
\* the other entries stay); a set with the absent value removes the entry of
\* that name and leaves the other entries as they were.
C7_SetChangesOneEntry ==
  [][\A p_name \in Names :
       /\ \A p_value \in Values :
            has(props, p_name) /\ _set(p_name, p_value) =>
              /\ DOMAIN props' = DOMAIN props
              /\ props'[p_name].variant = p_value
              /\ \A f \in Fields \ {"variant"} : props'[p_name][f] = props[p_name][f]
              /\ OthersUnchanged(p_name)
              /\ last_order' = last_order
              /\ order_log' = order_log
       /\ _set(p_name, NIL) =>
            /\ DOMAIN props' = DOMAIN props \ {p_name}
            /\ OthersUnchanged(p_name)]_vars

\* a.f was assigned twice and never removed: one order was handed out, the
\* entry still carries it, and the second assignment changed its value.
C7_Witness ==
  /\ OverridesOf(NameA) = <<Pair(F, NameAF), Pair(F, NameAF)>>
  /\ Len(order_log) = 1
  /\ has(props, NameAF)
  /\ props[NameAF].order = order_log[1]
  /\ last_order = 1

\* The field a setter is there to assign.
FieldOf(op) ==
  CASE op = "set_initial_value" -> "initial"
    [] op = "set_restart_if_changed" -> "restart_if_changed"
    [] op = "set_as_basic" -> "basic"
    [] op = "set_as_internal" -> "internal"
    [] op = "set_ignore_value_in_docs" -> "ignore_value_in_docs"

\* C8: each of the five setters, called with a name that is not stored,
\* leaves the whole store as it was (entries, counter, override index,
\* pending flag) and creates no entry; called with a stored name it leaves
\* every other entry, every other field of that entry and everything else
\* as it was.
C8_SettersFailOrTouchOneField ==
  [][\A op \in Setters, p_name \in FlagNames, p_value \in InitialValues, p_flag \in BOOLEAN :
       setter(op, p_name, p_value, p_flag) =>
         IF ~has(props, p_name)
           THEN UNCHANGED store_vars
           ELSE /\ DOMAIN props' = DOMAIN props
                /\ OthersUnchanged(p_name)
                /\ \A f \in Fields \ {FieldOf(op)} : props'[p_name][f] = props[p_name][f]
                /\ UNCHANGED store_frame]_vars

\* The setters have acted on the stored name a: two flags and the initial
\* value are set, the other flags are clear, and the pending flag was not set.
C8_Witness ==
  /\ has(props, NameA) /\ ~has(props, NameAF)
  /\ props[NameA].basic /\ props[NameA].restart_if_changed
  /\ ~props[NameA].internal /\ ~props[NameA].ignore_value_in_docs
  /\ props[NameA].initial # NIL
  /\ mq_ready /\ ~is_changed /\ signals = 0

\* C9: at most one deferred delivery is outstanding, and one is outstanding
\* exactly while the pending flag is set; the flag goes from clear to set
\* together with the queueing of one call; a delivery leaves the flag clear
\* and emits at most one signal, none when the flag was clear.
C9_OnePendingDelivery ==
  /\ [](deferred \in {0, 1} /\ (is_changed <=> deferred = 1))
  /\ [][/\ deferred' > deferred => ~is_changed /\ is_changed' /\ deferred' = deferred + 1
        /\ Deliver => /\ ~is_changed'
                      /\ signals' \in {signals, signals + 1}
                      /\ ~is_changed => signals' = signals]_vars

\* A signal was delivered and a later change has set the flag again: one
\* call is queued.
C9_Witness ==
  /\ signals = 1
  /\ is_changed
  /\ deferred = 1

\* C10 as stated: every step that changes the store leaves the pending flag set.
C10_EveryMutationSetsFlag ==
  [][props' # props \/ custom_features' # custom_features => is_changed']_vars

\* C10 as amended: a set or remove made while the MessageQueue is available
\* leaves the pending flag set, and while the flag is set a signal is
\* eventually emitted; a set or remove made while the MessageQueue is not
\* available, and every flag or initial-value setter, leaves the pending
\* flag and the queue as they were.
C10_SetNotifiesSettersDoNot ==
  /\ [][\A p_name \in Names, p_value \in Values \cup {NIL} :
          _set(p_name, p_value) =>
            IF mq_ready THEN is_changed' ELSE UNCHANGED <<is_changed, deferred>>]_vars
  /\ [][\A op \in Setters, p_name \in FlagNames, p_value \in InitialValues, p_flag \in BOOLEAN :
          setter(op, p_name, p_value, p_flag) => UNCHANGED <<is_changed, deferred>>]_vars
  /\ \A k \in 0..MaxSignals : (is_changed /\ signals = k) ~> (signals = k + 1)

\* A set was made with the MessageQueue up and its signal has been emitted.
C10_Witness ==
  /\ mq_ready
  /\ signals = 1
  /\ ~is_changed /\ deferred = 0
  /\ has(props, NameA)

(* ==================== properties of concurrent callers ================= *)
\* C5: whatever the interleaving of the threads' set calls, every insertion
\* made one entry and took one order value of its own: the stored entries
\* are as many as the orders handed out and carry pairwise different
\* orders, the orders handed out grow strictly, and when no call is under
\* way the counter has advanced by exactly the number of insertions.
C5_ConcurrentInsertsDistinctOrders ==
  /\ Cardinality(DOMAIN props) = Len(order_log)
  /\ \A m, n \in DOMAIN props : m # n => props[m].order # props[n].order
  /\ StrictlyIncreasing(order_log)
  /\ (\A t \in Threads : pc[t] = "idle") => last_order = Len(order_log)

\* Two calls that insert different new names overlap: one holds the lock,
\* has advanced the counter and is about to store its entry, the other
\* waits for the lock.
C5_Witness ==
  \E t, u \in Threads :
    /\ t # u
    /\ pc[t] = "set_store" /\ mutex = t
    /\ pc[u] = "set_lock"
    /\ call[t].p_name # call[u].p_name
    /\ get_type(call[u].p_value) # "NIL"
    /\ ~has(props, call[t].p_name) /\ ~has(props, call[u].p_name)
    /\ last_order = local[t] + 1

\* C6 as stated: the setters are serialised with set, so that a setter that
\* has passed its existence check finds its entry still stored when it
\* writes: no removal comes between the check and the write.
C6_SetterWritesStoredEntry ==
  \A t \in Threads :
    pc[t] = "setter_write" => has(props, call[t].p_name)

(* ======================= the path translator ========================== *)
\* The store and the threads as Init leaves them; the specifications of the
\* translator, of the feature check and of the loader start from it.
StoreIdle ==
  /\ props = EmptyMap
  /\ last_order = 0
  /\ order_log = <<>>
  /\ feature_overrides = EmptyMap
  /\ custom_features = {}
  /\ is_changed = FALSE
  /\ deferred = 0
  /\ mq_ready = FALSE
  /\ signals = 0
  /\ pc = [t \in Threads |-> "idle"]
  /\ call = [t \in Threads |-> NoCall]
  /\ local = [t \in Threads |-> 0]
  /\ mutex = NoThread

SLASH == "/"
\* "res://", "res:/", "user://", "user:/" and "://"
RES == <<"r", "e", "s", ":", "/", "/">>
RES1 == <<"r", "e", "s", ":", "/">>
USER == <<"u", "s", "e", "r", ":", "/", "/">>
USER1 == <<"u", "s", "e", "r", ":", "/">>
PROTOCOL == <<":", "/", "/">>

is_empty(s) == Len(s) = 0

\* what stands in s at position i (from 1).
occurs_at(s, what, i) ==
  /\ i >= 1
  /\ i + Len(what) - 1 <= Len(s)
  /\ SubSeq(s, i, i + Len(what) - 1) = what

\* String::find with a string: index (from 0) of its first occurrence, -1
\* when there is none.
find_string(s, what) ==
  IF \E i \in 1..Len(s) : occurs_at(s, what, i)
    THEN (CHOOSE i \in 1..Len(s) :
            occurs_at(s, what, i) /\ \A j \in 1..(i - 1) : ~occurs_at(s, what, j)) - 1
    ELSE -1

\* String::replace: every occurrence of key, found from left to right and
\* not overlapping, gives way to with.
RECURSIVE replace(_, _, _)
replace(s, key, with) ==
  LET p == find_string(s, key) IN
    IF is_empty(key) \/ p = -1 THEN s
    ELSE SubSeq(s, 1, p) \o with \o replace(SubSeq(s, p + Len(key) + 1, Len(s)), key, with)

\* String::replace_first: the first occurrence of key alone gives way to with.
replace_first(s, key, with) ==
  LET p == find_string(s, key) IN
    IF p = -1 THEN s
    ELSE SubSeq(s, 1, p) \o with \o SubSeq(s, p + Len(key) + 1, Len(s))

\* ProjectSettings::globalize_path.
globalize_path(path) ==
  IF begins_with(path, RES)
    THEN IF ~is_empty(resource_path)
           THEN replace(path, RES1, resource_path)
           ELSE replace(path, RES, <<>>)
  ELSE IF begins_with(path, USER)
    THEN IF ~is_empty(data_dir)
           THEN replace(path, USER1, data_dir)
           ELSE replace(path, USER, <<>>)
  ELSE path

\* Longest virtual path handed to globalize_path, in characters.
MaxVirtualLen == 14
\* The pieces a virtual path is put together from.
VirtualPieces == {RES, USER, <<"x", SLASH>>}
\* The roots the translator is configured with.
ResourcePaths == {<<>>, <<SLASH, "p">>}
DataDirs == {<<>>, <<SLASH, "u">>}

InitGlobalize ==
  /\ StoreIdle
  /\ FeaturesIdle
  /\ SetupIdle
  /\ called = "none"
  /\ resource_path \in ResourcePaths
  /\ data_dir \in DataDirs
  /\ dirs = {}
  /\ current_dir = <<>>
  /\ p_path = <<>>
  /\ r_path = <<>>

\* The caller puts the path together, one piece at a time.
AppendVirtual ==
  /\ called = "none"
  /\ \E piece \in VirtualPieces :
       /\ Len(p_path) + Len(piece) <= MaxVirtualLen
       /\ p_path' = p_path \o piece
  /\ UNCHANGED <<resource_path, data_dir, dirs, current_dir, r_path, called>>
  /\ UNCHANGED <<store_vars, thread_vars, features_vars, setup_vars>>

\* The call globalize_path(p_path).
GlobalizePath ==
  /\ called = "none"
  /\ r_path' = globalize_path(p_path)
  /\ called' = "globalize_path"
  /\ UNCHANGED <<resource_path, data_dir, dirs, current_dir, p_path>>
  /\ UNCHANGED <<store_vars, thread_vars, features_vars, setup_vars>>

NextGlobalize ==
  \/ AppendVirtual
  \/ GlobalizePath

SpecGlobalize == InitGlobalize /\ [][NextGlobalize]_vars

\* The rest of s from position i (from 1) on.
From(s, i) == SubSeq(s, i, Len(s))

\* C11: globalize_path gives, for a path that begins with "res://", the
\* project root followed by the rest of the path as it stands (only the
\* leading marker gives way, later occurrences of its text stay); with the
\* root unset the leading marker gives way to nothing.  "user://" is dealt
\* with in the same way with the user data directory.  Every other path
\* comes back as it is.
C11_OnlyLeadingMarkerReplaced ==
  called = "globalize_path" =>
    IF begins_with(p_path, RES)
      THEN r_path = (IF is_empty(resource_path)
                       THEN From(p_path, Len(RES) + 1)
                       ELSE resource_path \o From(p_path, Len(RES1) + 1))
    ELSE IF begins_with(p_path, USER)
      THEN r_path = (IF is_empty(data_dir)
                       THEN From(p_path, Len(USER) + 1)
                       ELSE data_dir \o From(p_path, Len(USER1) + 1))
    ELSE r_path = p_path

(* ------------------------ localize_path (120-184) ---------------------- *)
DOTDOT == <<DOT, DOT>>
\* The letters and digits among the characters of the model.
Alphanumeric == {"d", "e", "p", "r", "s", "u", "x"}
is_ascii_alphanumeric_char(c) == c \in Alphanumeric

\* String::rfind with a character: index (from 0) of its last occurrence,
\* -1 when there is none.
rfind(s, c) ==
  IF \E i \in 1..Len(s) : s[i] = c
    THEN (CHOOSE i \in 1..Len(s) : s[i] = c /\ \A j \in (i + 1)..Len(s) : s[j] # c) - 1
    ELSE -1

\* String::substr: chars characters from index from (from 0), as many as
\* there are.
substr(s, from, chars) ==
  IF from < 0 \/ from >= Len(s) \/ chars <= 0 THEN <<>>
  ELSE SubSeq(s, from + 1, IF from + chars > Len(s) THEN Len(s) ELSE from + chars)

\* String::size: the length with the terminator.
size(s) == Len(s) + 1

\* String::path_join.
path_join(s, file) ==
  IF is_empty(s) THEN file
  ELSE IF s[Len(s)] = SLASH \/ (Len(file) > 0 /\ file[1] = SLASH) THEN s \o file
  ELSE s \o <<SLASH>> \o file

\* String::is_absolute_path, for paths written with "/".
is_absolute_path(s) ==
  IF Len(s) > 1 THEN s[1] = SLASH \/ find_string(s, <<":", SLASH>>) # -1
  ELSE IF Len(s) = 1 THEN s[1] = SLASH
  ELSE FALSE

\* The test of lines 128-141: the path begins with letters and digits
\* followed by "://".
has_protocol(path) ==
  LET p == find_string(path, PROTOCOL) IN
    /\ p > 0
    /\ \A i \in 1..p : is_ascii_alphanumeric_char(path[i])

\* The components of a path between its separators, the empty ones left out.
components(s) == SelectSeq(split(s, SLASH), LAMBDA d : d # <<>>)

\* "." is dropped and ".." takes the component before it with it.
RECURSIVE resolve_dots(_, _)
resolve_dots(done, todo) ==
  IF todo = <<>> THEN done
  ELSE LET d == Head(todo) IN
    IF d = <<DOT>> THEN resolve_dots(done, Tail(todo))
    ELSE IF d = DOTDOT /\ Len(done) > 0 /\ done[Len(done)] # DOTDOT
      THEN resolve_dots(SubSeq(done, 1, Len(done) - 1), Tail(todo))
    ELSE resolve_dots(Append(done, d), Tail(todo))

RECURSIVE join(_)
join(ds) ==
  IF ds = <<>> THEN <<>>
  ELSE IF Len(ds) = 1 THEN ds[1]
  ELSE ds[1] \o <<SLASH>> \o join(Tail(ds))

\* String::simplify_path: the protocol or the leading "/" is kept, repeated
\* and trailing separators go, "." and ".." are resolved.
simplify_path(s) ==
  LET p == find_string(s, PROTOCOL)
      drive == IF has_protocol(s) THEN SubSeq(s, 1, p + 3)
               ELSE IF begins_with(s, <<SLASH>>) THEN <<SLASH>>
               ELSE <<>>
      rest == From(s, Len(drive) + 1)
  IN drive \o join(resolve_dots(<<>>, components(rest)))

\* The directory DirAccess::change_dir goes to: a relative path is taken
\* from the working directory.
change_dir_target(path) ==
  IF is_absolute_path(path) THEN path
  ELSE simplify_path(path_join(current_dir, path))

\* DirAccess::change_dir(path) == OK: the directory exists.
change_dir(path) == change_dir_target(path) \in dirs

\* DirAccess::get_current_dir after the change.
get_current_dir(path) == change_dir_target(path)

\* Lines 145-165: the directory exists.
localize_existing(path) ==
  LET res_path == path_join(resource_path, <<>>)
      cwd == path_join(get_current_dir(path), <<>>)
  IN IF ~begins_with(cwd, res_path) THEN path
     ELSE replace_first(cwd, res_path, RES)

\* Faulty variant: the separator that begins the last component is kept
\* whatever the localized parent ends with.
RECURSIVE localize_path_keep_separator(_)
localize_path_keep_separator(p) ==
  LET path == simplify_path(p) IN
    IF is_empty(resource_path) \/ (is_absolute_path(path) /\ ~begins_with(path, resource_path))
      THEN path
    ELSE IF has_protocol(path) THEN path
    ELSE IF change_dir(path) THEN localize_existing(path)
    ELSE LET sep == rfind(path, SLASH) IN
      IF sep = -1 THEN RES \o path
      ELSE LET parent == substr(path, 0, sep)
               plocal == localize_path_keep_separator(parent)
           IN IF is_empty(plocal) THEN <<>>
              ELSE plocal \o substr(path, sep, size(path) - sep)

\* ProjectSettings::localize_path.
RECURSIVE localize_path(_)
localize_path(p) ==
  LET path == simplify_path(p) IN
    IF is_empty(resource_path) \/ (is_absolute_path(path) /\ ~begins_with(path, resource_path))
      THEN path
    ELSE IF has_protocol(path) THEN path
    ELSE IF change_dir(path) THEN localize_existing(path)
    ELSE LET sep == rfind(path, SLASH) IN
      IF sep = -1 THEN RES \o path
      ELSE LET parent == substr(path, 0, sep)
               plocal == localize_path(parent)
           IN IF is_empty(plocal) THEN <<>>
              ELSE LET sep1 == IF plocal[Len(plocal)] = SLASH THEN sep + 1 ELSE sep
                   IN plocal \o substr(path, sep1, size(path) - sep1)

\* Longest real path handed to localize_path, in characters.
MaxRealLen == 8
\* The pieces a real path is put together from.
RealPieces == {<<SLASH, "p">>, <<SLASH, "p", "d">>, <<SLASH, "x">>, <<SLASH, DOT, DOT>>,
               <<SLASH>>}
ROOT == <<SLASH>>
\* The filesystems of the model: "/" with /p and /p/x, or /p alone, or
\* neither, and with or without the sibling /pd.
Filesystems ==
  {{ROOT} \cup chain \cup sibling :
     chain \in {{}, {<<SLASH, "p">>}, {<<SLASH, "p">>, <<SLASH, "p", SLASH, "x">>}},
     sibling \in {{}, {<<SLASH, "p", "d">>}}}

InitLocalize ==
  /\ StoreIdle
  /\ FeaturesIdle
  /\ SetupIdle
  /\ called = "none"
  /\ resource_path \in ResourcePaths
  /\ data_dir = <<>>
  /\ dirs \in Filesystems
  /\ current_dir \in dirs
  /\ p_path = <<>>
  /\ r_path = <<>>

\* The caller puts the path together, one piece at a time.
AppendReal ==
  /\ called = "none"
  /\ \E piece \in RealPieces :
       /\ Len(p_path) + Len(piece) <= MaxRealLen
       /\ p_path' = p_path \o piece
  /\ UNCHANGED <<resource_path, data_dir, dirs, current_dir, r_path, called>>
  /\ UNCHANGED <<store_vars, thread_vars, features_vars, setup_vars>>

\* The call localize_path(p_path).
LocalizePath ==
  /\ called = "none"
  /\ r_path' = localize_path(p_path)
  /\ called' = "localize_path"
  /\ UNCHANGED <<resource_path, data_dir, dirs, current_dir, p_path>>
  /\ UNCHANGED <<store_vars, thread_vars, features_vars, setup_vars>>

NextLocalize ==
  \/ AppendReal
  \/ LocalizePath

SpecLocalize == InitLocalize /\ [][NextLocalize]_vars

\* The path is written plainly: absolute, no repeated or trailing separator,
\* no ".." in it.
Plain(path) ==
  /\ begins_with(path, <<SLASH>>)
  /\ path[Len(path)] # SLASH
  /\ find_string(path, <<SLASH, SLASH>>) = -1
  /\ find_string(path, DOTDOT) = -1

\* C12: with the project root an existing directory, localize_path of a
\* plainly written path root/d1/.../dk/file that is not an existing
\* directory returns "res://" followed by d1/.../dk/file, one separator
\* between the marker and the first component and between every two
\* components, however many of the parents are missing.
C12_MissingTailLocalized ==
  (/\ called = "localize_path"
   /\ ~is_empty(resource_path)
   /\ resource_path \in dirs
   /\ Plain(p_path)
   /\ begins_with(p_path, resource_path \o <<SLASH>>)
   /\ p_path \notin dirs)
  => r_path = RES \o From(p_path, Len(resource_path) + 2)

\* /p exists and nothing below it does: /p/x/x/x, whose two parents are
\* missing, came back as res://x/x/x.
C12_Witness ==
  /\ called = "localize_path"
  /\ resource_path = <<SLASH, "p">>
  /\ resource_path \in dirs
  /\ <<SLASH, "p", SLASH, "x">> \notin dirs
  /\ p_path = <<SLASH, "p", SLASH, "x", SLASH, "x", SLASH, "x">>
  /\ r_path = RES \o <<"x", SLASH, "x", SLASH, "x">>

\* The simplified path is the root or lies below it.
UnderRoot(path) ==
  \/ path = resource_path
  \/ begins_with(path, resource_path \o <<SLASH>>)

\* C13: localize_path of an absolute path that does not lie under the
\* project root never gives a "res://" path: it returns the simplified path
\* as it is, or the empty string.
C13_OutsideRootNeverLocalized ==
  (/\ called = "localize_path"
   /\ ~is_empty(resource_path)
   /\ is_absolute_path(p_path)
   /\ ~UnderRoot(simplify_path(p_path)))
  => /\ ~begins_with(r_path, RES)
     /\ r_path \in {simplify_path(p_path), <<>>}

(* ================= _convert_to_last_version (467-478) ================= *)
\* "input/"
INPUT == <<"i", "n", "p", "u", "t", SLASH>>
Array(events) == [type |-> "ARRAY", v |-> events]
Dictionary(fields) == [type |-> "DICTIONARY", v |-> fields]
\* Variant(0.5f)
HALF == [type |-> "FLOAT", v |-> <<"0", DOT, "5">>]

\* Lines 474-476: the dictionary built around the array.
action(array) == Dictionary([deadzone |-> HALF, events |-> array])

\* Faulty variant: the name of the setting is not looked at.
_convert_to_last_version_any_name(p_from_version) ==
  /\ props' =
       IF p_from_version <= 3
         THEN [key \in DOMAIN props |->
                 LET value == props[key].variant IN
                   IF get_type(value) = "ARRAY"
                     THEN [props[key] EXCEPT !.variant = action(value)]
                     ELSE props[key]]
         ELSE props
  /\ UNCHANGED <<last_order, order_log, feature_overrides, custom_features,
                 is_changed, deferred, mq_ready, signals>>

\* ProjectSettings::_convert_to_last_version.
_convert_to_last_version(p_from_version) ==
  /\ props' =
       IF p_from_version <= 3
         THEN [key \in DOMAIN props |->
                 LET value == props[key].variant IN
                   IF begins_with(key, INPUT) /\ get_type(value) = "ARRAY"
                     THEN [props[key] EXCEPT !.variant = action(value)]
                     ELSE props[key]]
         ELSE props
  /\ UNCHANGED <<last_order, order_log, feature_overrides, custom_features,
                 is_changed, deferred, mq_ready, signals>>

\* Most settings a project file brings.
MaxSettings == 4
\* The stored versions a project file can carry.
Versions == 2..5
InputA == INPUT \o <<"a">>
InputB == INPUT \o <<"b">>
NameInput == <<"i", "n", "p", "u", "t">>
\* The settings of a project file: two input actions, a name that only
\* resembles the namespace, a name outside it.
FileNames == {InputA, InputB, NameInput, NameA}
\* Their values: a list of events or a string.
FileValues == {Array(<<"e">>), StringVariant(<<"e">>)}

\* The settings file is read: every setting goes through set.
LoadSetting ==
  /\ \E p_name \in FileNames, p_value \in FileValues :
       /\ ~has(props, p_name)
       /\ last_order < MaxSettings
       /\ _set(p_name, p_value)
  /\ UNCHANGED thread_vars
  /\ UNCHANGED aux_vars

\* The migration from the version the file carries.
ConvertToLastVersion ==
  /\ \E p_from_version \in Versions : _convert_to_last_version(p_from_version)
  /\ UNCHANGED thread_vars
  /\ UNCHANGED aux_vars

NextConvert ==
  \/ LoadSetting
  \/ ConvertToLastVersion

SpecConvert == Init /\ [][NextConvert]_vars

\* C14: a migration from a version of 3 or less turns the value of every
\* setting whose name begins with "input/" and whose value is a list into a
\* dictionary with the two fields deadzone = 0.5 and events = the list; every
\* other setting keeps its value; the names stored and the order of every
\* setting stay; a migration from a version of 4 or more changes nothing.
C14_InputListsWrapped ==
  [][\A p_from_version \in Versions :
       _convert_to_last_version(p_from_version) =>
         /\ DOMAIN props' = DOMAIN props
         /\ \A key \in DOMAIN props :
              /\ props'[key].order = props[key].order
              /\ IF /\ p_from_version <= 3
                    /\ begins_with(key, INPUT)
                    /\ get_type(props[key].variant) = "ARRAY"
                   THEN /\ get_type(props'[key].variant) = "DICTIONARY"
                        /\ DOMAIN props'[key].variant.v = {"deadzone", "events"}
                        /\ props'[key].variant.v.deadzone = HALF
                        /\ props'[key].variant.v.events = props[key].variant
                   ELSE props'[key] = props[key]
         /\ p_from_version >= 4 => props' = props]_vars

\* The file brought three lists and, under the second input action, a
\* string; after the migration the first input action is a dictionary around
\* its list and the other three are what they were.
C14_Witness ==
  /\ DOMAIN props = FileNames
  /\ props[InputA].variant = action(Array(<<"e">>))
  /\ props[InputB].variant = StringVariant(<<"e">>)
  /\ props[NameInput].variant = Array(<<"e">>)
  /\ props[NameA].variant = Array(<<"e">>)

(* ================== the archive loader (441-465, 479-517) ============== *)
OK == "OK"
ERR_CANT_OPEN == "ERR_CANT_OPEN"
ERR_FILE_NOT_FOUND == "ERR_FILE_NOT_FOUND"
\* What reading a settings file can give.
LoadResults == {OK, ERR_FILE_NOT_FOUND}
\* "res://project.godot" (or "res://project.binary") and "override.cfg"
PROJECT_GODOT == "project.godot"
OVERRIDE_CFG == "override.cfg"
\* The refreshes of lines 454 and 457.
REFRESHES == <<"refresh_global_class_list", "ResourceUID::load_from_cache">>

\* OS::get_resource_dir(): the platform names no resource directory.
get_resource_dir == <<>>
\* OS::get_executable_path()
exec_path == <<"g">>
PCK == <<DOT, "p", "c", "k">>
\* The explicit archive a caller may name.
MainPack == <<"m">> \o PCK
\* The locations probed when no archive is named, in their fixed order: the
\* executable itself, the archive named after it, the archive named after
\* its base name, the archive in the working directory.
Candidates == <<exec_path, exec_path \o PCK, exec_path \o <<DOT, "x">> \o PCK,
                <<DOT, SLASH>> \o exec_path \o PCK>>
AllPacks == {MainPack} \cup Range(Candidates)

At(where) == [at |-> where, i |-> 0]
Probing(i) == [at |-> "probe", i |-> i]

\* PackedData::add_pack(p_pack, ...) == OK
add_pack(p_pack) == p_pack \in packs

\* The value _load_resource_pack returns.
load_resource_pack_ok(p_pack) == ~disabled /\ add_pack(p_pack)

\* Faulty variant: the refreshes are made whether or not a setup has completed.
_load_resource_pack_always_refreshing(p_pack) ==
  IF disabled
    THEN UNCHANGED <<probed, mounted, refreshed, using_datapack>>
  ELSE /\ probed' = Append(probed, p_pack)
       /\ IF ~add_pack(p_pack)
            THEN UNCHANGED <<mounted, refreshed, using_datapack>>
            ELSE /\ mounted' = Append(mounted, p_pack)
                 /\ refreshed' = refreshed \o REFRESHES
                 /\ using_datapack' = TRUE

\* ProjectSettings::_load_resource_pack: what the call does to the state.
_load_resource_pack(p_pack) ==
  IF disabled
    THEN UNCHANGED <<probed, mounted, refreshed, using_datapack>>
  ELSE /\ probed' = Append(probed, p_pack)
       /\ IF ~add_pack(p_pack)
            THEN UNCHANGED <<mounted, refreshed, using_datapack>>
            ELSE /\ mounted' = Append(mounted, p_pack)
                 /\ refreshed' = IF project_loaded THEN refreshed \o REFRESHES
                                 ELSE refreshed
                 /\ using_datapack' = TRUE

\* What the steps of the loader leave alone.
setup_inputs == <<p_main_pack, p_ignore_override, packs, disabled>>
outside_setup == <<store_vars, thread_vars, features_vars, called,
                   data_dir, dirs, current_dir, p_path, r_path>>

\* Most mount attempts of one run, those of setup included.
MaxProbed == 5
\* The archives mounted after setup.
HotPacks == {MainPack, exec_path \o PCK}

InitSetup ==
  /\ StoreIdle
  /\ PathIdle
  /\ FeaturesIdle
  /\ called = "none"
  /\ setup_pc = At("idle")
  /\ p_main_pack \in {<<>>, MainPack}
  /\ p_ignore_override \in BOOLEAN
  /\ packs \in SUBSET AllPacks
  /\ disabled \in BOOLEAN
  /\ probed = <<>>
  /\ mounted = <<>>
  /\ loaded = <<>>
  /\ err = "none"
  /\ project_loaded = FALSE
  /\ using_datapack = FALSE
  /\ refreshed = <<>>

\* Lines 480-491 and 504-506: the resource directory of the platform, then
\* the explicit archive or the first candidate.
SetupCall ==
  /\ setup_pc = At("idle")
  /\ resource_path' =
       IF ~is_empty(get_resource_dir)
         THEN LET dir == get_resource_dir IN
                IF dir[Len(dir)] = SLASH THEN substr(dir, 0, Len(dir) - 1) ELSE dir
         ELSE resource_path
  /\ setup_pc' = IF ~is_empty(p_main_pack) THEN At("main_pack")
                 ELSE IF ~is_empty(exec_path) THEN Probing(1)
                 ELSE At("not_found")
  /\ UNCHANGED <<probed, mounted, loaded, err, project_loaded, using_datapack, refreshed>>
  /\ UNCHANGED <<setup_inputs, outside_setup>>

\* Faulty variant: an explicit archive that does not mount sends the loader
\* on to the candidates.
SetupMainPack_falling_back ==
  /\ setup_pc = At("main_pack")
  /\ _load_resource_pack(p_main_pack)
  /\ setup_pc' = IF load_resource_pack_ok(p_main_pack) THEN At("load_settings")
                 ELSE Probing(1)
  /\ UNCHANGED <<loaded, err, project_loaded, resource_path>>
  /\ UNCHANGED <<setup_inputs, outside_setup>>

\* Lines 492-493: the explicit archive is mounted, or _setup returns
\* ERR_CANT_OPEN.
SetupMainPack ==
  /\ setup_pc = At("main_pack")
  /\ _load_resource_pack(p_main_pack)
  /\ IF load_resource_pack_ok(p_main_pack)
       THEN setup_pc' = At("load_settings") /\ UNCHANGED err
       ELSE setup_pc' = At("returned") /\ err' = ERR_CANT_OPEN
  /\ UNCHANGED <<loaded, project_loaded, resource_path>>
  /\ UNCHANGED <<setup_inputs, outside_setup>>

\* Faulty variant: the loader goes on to the next candidate although the
\* executable mounted.
SetupProbeExec_ignoring_found ==
  /\ setup_pc = Probing(1)
  /\ _load_resource_pack(exec_path)
  /\ setup_pc' = Probing(2)
  /\ UNCHANGED <<loaded, err, project_loaded, resource_path>>
  /\ UNCHANGED <<setup_inputs, outside_setup>>

\* Line 511: the archive bundled into the executable is tried first.
SetupProbeExec ==
  /\ setup_pc = Probing(1)
  /\ _load_resource_pack(exec_path)
  /\ setup_pc' = IF load_resource_pack_ok(exec_path) THEN At("load_settings")
                 ELSE Probing(2)
  /\ UNCHANGED <<loaded, err, project_loaded, resource_path>>
  /\ UNCHANGED <<setup_inputs, outside_setup>>

\* After line 517: while nothing was found the next candidate is tried.
SetupProbeNext ==
  /\ setup_pc.at = "probe"
  /\ setup_pc.i > 1
  /\ LET i == setup_pc.i IN
       /\ _load_resource_pack(Candidates[i])
       /\ setup_pc' = IF load_resource_pack_ok(Candidates[i]) THEN At("load_settings")
                      ELSE IF i < Len(Candidates) THEN Probing(i + 1)
                      ELSE At("not_found")
  /\ UNCHANGED <<loaded, err, project_loaded, resource_path>>
  /\ UNCHANGED <<setup_inputs, outside_setup>>

\* No candidate mounted: the loader ends with the default configuration.
SetupNotFound ==
  /\ setup_pc = At("not_found")
  /\ err' = OK
  /\ setup_pc' = At("returned")
  /\ UNCHANGED <<probed, mounted, loaded, project_loaded, using_datapack, refreshed,
                 resource_path>>
  /\ UNCHANGED <<setup_inputs, outside_setup>>

\* Lines 495-496 and 501: the settings of the project are read; _setup goes
\* on to the override file or returns err.
SetupLoadSettings ==
  /\ setup_pc = At("load_settings")
  /\ \E e \in LoadResults :
       /\ loaded' = Append(loaded, [file |-> PROJECT_GODOT, result |-> e])
       /\ err' = e
       /\ setup_pc' = IF e = OK /\ ~p_ignore_override THEN At("load_override")
                      ELSE At("returned")
  /\ UNCHANGED <<probed, mounted, project_loaded, using_datapack, refreshed,
                 resource_path>>
  /\ UNCHANGED <<setup_inputs, outside_setup>>

\* Faulty variant: the result of reading the override file is returned.
SetupLoadOverride_returning_result ==
  /\ setup_pc = At("load_override")
  /\ \E e \in LoadResults :
       /\ loaded' = Append(loaded, [file |-> OVERRIDE_CFG, result |-> e])
       /\ err' = e
  /\ setup_pc' = At("returned")
  /\ UNCHANGED <<probed, mounted, project_loaded, using_datapack, refreshed,
                 resource_path>>
  /\ UNCHANGED <<setup_inputs, outside_setup>>

\* Lines 497-501: the override file is read and its result dropped.
SetupLoadOverride ==
  /\ setup_pc = At("load_override")
  /\ \E e \in LoadResults :
       loaded' = Append(loaded, [file |-> OVERRIDE_CFG, result |-> e])
  /\ setup_pc' = At("returned")
  /\ UNCHANGED <<probed, mounted, err, project_loaded, using_datapack, refreshed,
                 resource_path>>
  /\ UNCHANGED <<setup_inputs, outside_setup>>

\* setup, the caller of _setup: a setup that returned OK has loaded the project.
SetupCompleted ==
  /\ setup_pc = At("returned")
  /\ project_loaded' = (err = OK)
  /\ setup_pc' = At("done")
  /\ UNCHANGED <<probed, mounted, loaded, err, using_datapack, refreshed, resource_path>>
  /\ UNCHANGED <<setup_inputs, outside_setup>>

\* An archive is mounted later in the life of the process.
LoadResourcePack ==
  /\ setup_pc = At("done")
  /\ Len(probed) < MaxProbed
  /\ \E p_pack \in HotPacks : _load_resource_pack(p_pack)
  /\ UNCHANGED <<setup_pc, loaded, err, project_loaded, resource_path>>
  /\ UNCHANGED <<setup_inputs, outside_setup>>

NextSetup ==
  \/ SetupCall
  \/ SetupMainPack
  \/ SetupProbeExec
  \/ SetupProbeNext
  \/ SetupNotFound
  \/ SetupLoadSettings
  \/ SetupLoadOverride
  \/ SetupCompleted
  \/ LoadResourcePack

SpecSetup == InitSetup /\ [][NextSetup]_vars

(* ===================== properties of the loader ======================= *)
\* C15: with no explicit archive the candidates are tried in their fixed
\* order and the first that mounts is the only one mounted and the last one
\* tried; with the first candidate failing and the second and third
\* mountable, _setup returns with the second alone mounted and the third
\* never tried.
C15_FirstCandidateThatMountsWins ==
  (is_empty(p_main_pack) /\ setup_pc.at # "done") =>
    /\ probed = SubSeq(Candidates, 1, Len(probed))
    /\ Len(mounted) <= 1
    /\ \A k \in 1..(Len(probed) - 1) : ~add_pack(probed[k])
    /\ mounted # <<>> =>
         /\ mounted = <<probed[Len(probed)]>>
         /\ setup_pc.at \in {"load_settings", "load_override", "returned"}
    /\ (/\ setup_pc.at = "returned"
        /\ ~disabled
        /\ ~add_pack(Candidates[1]) /\ add_pack(Candidates[2]) /\ add_pack(Candidates[3]))
       => /\ mounted = <<Candidates[2]>>
          /\ probed = <<Candidates[1], Candidates[2]>>

\* The executable holds no archive, the second and the third candidate are
\* there: _setup has returned OK with the second mounted and two candidates
\* tried.
C15_Witness ==
  /\ is_empty(p_main_pack)
  /\ setup_pc.at = "returned"
  /\ ~add_pack(Candidates[1]) /\ add_pack(Candidates[2]) /\ add_pack(Candidates[3])
  /\ probed = <<Candidates[1], Candidates[2]>>
  /\ mounted = <<Candidates[2]>>
  /\ err = OK

\* C16: with an explicit archive no other location is tried; when it does
\* not mount, _setup returns ERR_CANT_OPEN having tried no candidate and
\* read neither the settings of the project nor the override file.
C16_ExplicitArchiveOrCannotOpen ==
  (~is_empty(p_main_pack) /\ setup_pc.at # "done") =>
    /\ probed \in {<<>>, <<p_main_pack>>}
    /\ (setup_pc.at = "returned" /\ ~load_resource_pack_ok(p_main_pack)) =>
         /\ err = ERR_CANT_OPEN
         /\ loaded = <<>>
         /\ mounted = <<>>

\* The explicit archive is not there while every candidate is: _setup has
\* returned ERR_CANT_OPEN and the explicit archive is all it tried.
C16_Witness ==
  /\ p_main_pack = MainPack
  /\ ~add_pack(MainPack)
  /\ Range(Candidates) \subseteq packs
  /\ ~disabled
  /\ setup_pc.at = "returned"
  /\ err = ERR_CANT_OPEN
  /\ probed = <<MainPack>>
  /\ loaded = <<>>

\* C17: with an explicit archive the override file is read only after the
\* archive mounted and the settings of the project were read with OK, and
\* only when overrides are not ignored; _setup returns the result of reading
\* the settings of the project, whatever reading the override file gave and
\* whether or not it was read.
C17_OverrideResultDropped ==
  ~is_empty(p_main_pack) =>
    /\ \A k \in 1..Len(loaded) :
         loaded[k].file = OVERRIDE_CFG =>
           /\ k = 2
           /\ loaded[1] = [file |-> PROJECT_GODOT, result |-> OK]
           /\ ~p_ignore_override
           /\ mounted # <<>> /\ mounted[1] = p_main_pack
    /\ (setup_pc.at \in {"returned", "done"} /\ loaded # <<>>) =>
         /\ loaded[1].file = PROJECT_GODOT
         /\ err = loaded[1].result
    /\ (setup_pc.at = "returned" /\ err = OK /\ ~p_ignore_override) => Len(loaded) = 2

\* The explicit archive mounted, the settings of the project were read and
\* the override file could not be: _setup has returned OK.
C17_Witness ==
  /\ p_main_pack = MainPack
  /\ setup_pc.at = "returned"
  /\ mounted = <<MainPack>>
  /\ loaded = <<[file |-> PROJECT_GODOT, result |-> OK],
                [file |-> OVERRIDE_CFG, result |-> ERR_FILE_NOT_FOUND]>>
  /\ err = OK

\* C19: a step makes the two refreshes exactly when it mounts an archive
\* and a setup had completed before; a mount that fails or is refused
\* (packed data disabled) returns false, refreshes nothing and leaves
\* using_datapack as it was; once an archive is mounted using_datapack is
\* true and stays true.
C19_RefreshAfterSetupOnly ==
  /\ [][(refreshed' # refreshed) <=> (mounted' # mounted /\ project_loaded)]_vars
  /\ [][refreshed' # refreshed => refreshed' = refreshed \o REFRESHES]_vars
  /\ [][mounted' = mounted =>
          using_datapack' = using_datapack /\ refreshed' = refreshed]_vars
  /\ [][\A p_pack \in AllPacks :
          (probed' = Append(probed, p_pack) \/ disabled) =>
            (load_resource_pack_ok(p_pack) <=> mounted' = Append(mounted, p_pack))]_vars
  /\ [][using_datapack => using_datapack']_vars
  /\ [](mounted # <<>> => using_datapack)
  /\ [](disabled => probed = <<>> /\ mounted = <<>> /\ ~using_datapack)

\* setup mounted one archive without a refresh; after it completed one more
\* mount failed and one succeeded, and only the last made the two refreshes.
C19_Witness ==
  /\ project_loaded
  /\ Len(mounted) = 2
  /\ Len(probed) > 2
  /\ ~add_pack(probed[Len(probed) - 1])
  /\ refreshed = REFRESHES
  /\ using_datapack

(* ================ get_unsupported_features (59-96) ==================== *)
\* "Vulkan"
VULKAN == <<"V", "u", "l", "k", "a", "n">>
\* VERSION_BRANCH
VERSION_BRANCH == <<"4">>
\* "Mobile", one of the rendering methods of a build with RD_ENABLED.
MOBILE == <<"M">>
\* ProjectSettings::_get_supported_features, for the build of the model.
_get_supported_features == <<VERSION_BRANCH, MOBILE>>

\* The characters of the feature names, in the order of their codes.
Codes == <<"4", "C", "M", "V", "a", "k", "l", "n", "u", "x">>
code(c) == CHOOSE i \in 1..Len(Codes) : Codes[i] = c

\* String::operator<: the order of the dictionary on the character codes.
RECURSIVE less(_, _)
less(a, b) ==
  IF b = <<>> THEN FALSE
  ELSE IF a = <<>> THEN TRUE
  ELSE IF code(Head(a)) # code(Head(b)) THEN code(Head(a)) < code(Head(b))
  ELSE less(Tail(a), Tail(b))

\* PackedStringArray::has
array_has(array, value) == \E i \in 1..Len(array) : array[i] = value

\* value put into a sorted array, after the elements that are not above it.
RECURSIVE insert_sorted(_, _)
insert_sorted(array, value) ==
  IF array = <<>> THEN <<value>>
  ELSE IF less(value, Head(array)) THEN <<value>> \o array
  ELSE <<Head(array)>> \o insert_sorted(Tail(array), value)

\* PackedStringArray::sort
RECURSIVE sort(_)
sort(array) ==
  IF array = <<>> THEN <<>>
  ELSE insert_sorted(sort(SubSeq(array, 1, Len(array) - 1)), array[Len(array)])

\* Faulty variant of the loop: the names of the old rendering methods are
\* reported like every other name.
RECURSIVE collect_unsupported_with_legacy(_, _, _)
collect_unsupported_with_legacy(features, i, unsupported) ==
  IF i > Len(features) THEN unsupported
  ELSE IF ~array_has(_get_supported_features, features[i])
    THEN collect_unsupported_with_legacy(features, i + 1, Append(unsupported, features[i]))
    ELSE collect_unsupported_with_legacy(features, i + 1, unsupported)

\* The loop of lines 85-93.
RECURSIVE collect_unsupported(_, _, _)
collect_unsupported(features, i, unsupported) ==
  IF i > Len(features) THEN unsupported
  ELSE IF ~array_has(_get_supported_features, features[i])
    THEN IF begins_with(features[i], VULKAN)
           THEN collect_unsupported(features, i + 1, unsupported)
           ELSE collect_unsupported(features, i + 1, Append(unsupported, features[i]))
    ELSE collect_unsupported(features, i + 1, unsupported)

\* ProjectSettings::get_unsupported_features.
get_unsupported_features(features) == sort(collect_unsupported(features, 1, <<>>))

\* Longest list of project features.
MaxFeatures == 3
\* The features a project can name: two the build supports, two names of
\* old rendering methods, two the build lacks.
ProjectFeatures == {VERSION_BRANCH, MOBILE, VULKAN, VULKAN \o <<"x">>, <<"V", "u">>, <<"C">>}

InitFeatures ==
  /\ StoreIdle
  /\ PathIdle
  /\ SetupIdle
  /\ called = "none"
  /\ p_project_features = <<>>
  /\ r_features = <<>>

\* The project names one more feature.
AppendFeature ==
  /\ called = "none"
  /\ Len(p_project_features) < MaxFeatures
  /\ \E feature \in ProjectFeatures :
       p_project_features' = Append(p_project_features, feature)
  /\ UNCHANGED <<r_features, called>>
  /\ UNCHANGED <<store_vars, thread_vars, path_vars, setup_vars>>

\* The call get_unsupported_features(p_project_features).
GetUnsupportedFeatures ==
  /\ called = "none"
  /\ r_features' = get_unsupported_features(p_project_features)
  /\ called' = "get_unsupported_features"
  /\ UNCHANGED p_project_features
  /\ UNCHANGED <<store_vars, thread_vars, path_vars, setup_vars>>

NextFeatures ==
  \/ AppendFeature
  \/ GetUnsupportedFeatures

SpecFeatures == InitFeatures /\ [][NextFeatures]_vars

\* How many times value stands in array.
Count(array, value) == Cardinality({i \in 1..Len(array) : array[i] = value})

\* The project features the build lacks and that are no old rendering method.
Lacking(feature) ==
  /\ ~array_has(_get_supported_features, feature)
  /\ ~begins_with(feature, VULKAN)

\* C18: get_unsupported_features returns, in ascending order, the project
\* features that are not in the list of supported features and do not begin
\* with "Vulkan", each as often as the project names it; no feature that
\* begins with "Vulkan" and no supported feature is returned.
C18_UnsupportedSortedLegacySkipped ==
  called = "get_unsupported_features" =>
    /\ \A i \in 1..(Len(r_features) - 1) : ~less(r_features[i + 1], r_features[i])
    /\ \A feature \in ProjectFeatures :
         Count(r_features, feature) =
           IF Lacking(feature) THEN Count(p_project_features, feature) ELSE 0
    /\ \A i \in 1..Len(r_features) :
         /\ r_features[i] \in Range(p_project_features)
         /\ ~begins_with(r_features[i], VULKAN)
         /\ ~array_has(_get_supported_features, r_features[i])

\* The project names "Vu", an old rendering method and "C": the call
\* returned "C" and "Vu", in that order.
C18_Witness ==
  /\ called = "get_unsupported_features"
  /\ p_project_features = <<<<"V", "u">>, VULKAN \o <<"x">>, <<"C">>>>
  /\ r_features = <<<<"C">>, <<"V", "u">>>>

(* ================= the reserved name of custom features =============== *)
\* The tags of a comma-separated list: the stretches without a comma that
\* reach from one comma, or end of the list, to the next.
Tags(s) ==
  {SubSeq(s, b[1], b[2]) :
     b \in {c \in (1..(Len(s) + 1)) \X (0..Len(s)) :
              /\ c[2] >= c[1] - 1
              /\ c[1] = 1 \/ s[c[1] - 1] = COMMA
              /\ c[2] = Len(s) \/ s[c[2] + 1] = COMMA
              /\ \A k \in c[1]..c[2] : s[k] # COMMA}}

\* C20: a set of the reserved name _custom_features with a value stores no
\* entry and takes no order: it adds the tags of the comma-separated value
\* to the custom features and leaves the store, the counter and the override
\* index as they were; no step takes a tag out of the custom features; the
\* reserved name is never stored and never stands in the override index.
C20_ReservedNameFeedsFeatureSet ==
  /\ [][\A p_value \in Values :
          _set(_custom_features, p_value) =>
            /\ props' = props
            /\ last_order' = last_order
            /\ order_log' = order_log
            /\ feature_overrides' = feature_overrides
            /\ custom_features' = custom_features \cup Tags(String(p_value))]_vars
  /\ [][custom_features \subseteq custom_features']_vars
  /\ [](/\ ~has(props, _custom_features)
        /\ \A base \in DOMAIN feature_overrides :
             /\ base # _custom_features
             /\ \A i \in 1..Len(feature_overrides[base]) :
                  feature_overrides[base][i].second # _custom_features)

\* The value "g,f" was set under the reserved name while a was stored: both
\* tags are custom features, a is the only entry and one order was taken.
C20_Witness ==
  /\ custom_features = {F, G}
  /\ DOMAIN props = {NameA}
  /\ last_order = 1
  /\ order_log = <<0>>
  /\ feature_overrides = EmptyMap

====
